---- MODULE Spec2Model ----
(***************************************************************************)
(* A model of docs/main_generator.py, the documentation generator of the   *)
(* MGC Go SDK: the version resolver, the go-doc output cleaner, the README *)
(* sectionizer with the page writer, and the pipeline DocumentationGenera- *)
(* tor.run with the failures of its steps.                                 *)
(*                                                                         *)
(* Text is kept at the level of characters: a Python str is a sequence of  *)
(* one-character strings, so that strip(), startswith(), replace() and     *)
(* title() are computed and not assumed.  A text of several lines is kept  *)
(* as the sequence of its lines, which is what str.split('\n') returns and *)
(* what '\n'.join() takes: the two are inverse to each other on lines that *)
(* hold no line break.                                                     *)
(***************************************************************************)
EXTENDS Integers, Sequences, FiniteSets, TLC

VARIABLES
    is_readthedocs,            \* module global, main_generator.py:15
    \* ---- version resolver
    env_VERSION,               \* os.environ.get("VERSION")
    env_READTHEDOCS_VERSION,   \* os.environ.get("READTHEDOCS_VERSION")
    git_result,                \* what git describe --tags does when it is run
    v_pc,                      \* "start" | "done"
    project_version,           \* the value get_project_version returned
    git_queried,               \* whether the git subprocess was run
    \* ---- go-doc output cleaner (clean_go_doc_output)
    doc_output,                \* the argument, as its lines
    c_pc,                      \* "start" | "loop" | "done"
    lines,                     \* doc_output.split('\n')[1:]
    c_i,                       \* index in lines of the next line of the for loop
    cleaned_lines,
    in_code_block,
    code_block_content,
    constants_removed,
    types_removed,
    clean_result,              \* the value returned, as its lines
    \* ---- README sectionizer and page writer
    readme_exists,             \* whether project_root/README.md exists
    readme,                    \* its content, as its lines
    readme_sections,           \* the dict extract_readme_content returned
    r_pc,                      \* "start" | "extracted" | "written" | "structured"
    pages,                     \* the *.md files of source_dir: name -> content
    \* ---- the pipeline (DocumentationGenerator.run) and the file system
    p_pc,                      \* the step run() is about to take, "done" or "aborted"
    abort_cause,               \* the call whose exception left run(), or "none"
    banner,                    \* whether the final banner was printed
    go_available,              \* what check_go_availability returned
    out_dir,                   \* docs/output: "absent" | "empty" | "full" | "undefined"
    dirs,                      \* the directories that exist under source_dir
    misc_files,                \* requirements.txt and index.rst: name -> content
    module_state,              \* project_root/<module>: "absent" | "nogo" | "go"
    module_files,              \* source_dir/modules/<module>.md: module -> content
    examples_state,            \* project_root/cmd/examples: "absent" | "present"
    example_docs,              \* source_dir/examples/<name>.md: name -> content
    cwd,                       \* the working directory of the process
    log,                       \* the warnings printed: <<kind, subject>>
    mod_i,                     \* index in go_modules of the module of the loop
    go_doc_calls,              \* how get_go_doc_for_package ended, per module
    \* ---- the scaffolder run twice (clean_output_directory, create_sphinx_structure)
    s_pc,                      \* the call that comes next, or "done"
    s_fs,                      \* docs/output, docs/source and its two directories
    s_first,                   \* s_fs as the first round left it
    s_start                    \* s_fs as the first round found it

versionVars == <<env_VERSION, env_READTHEDOCS_VERSION, git_result, v_pc,
                 project_version, git_queried>>

cleanVars == <<doc_output, c_pc, lines, c_i, cleaned_lines, in_code_block,
               code_block_content, constants_removed, types_removed,
               clean_result>>

readmeVars == <<readme_exists, readme, readme_sections, r_pc, pages>>

runVars == <<p_pc, abort_cause, banner, go_available, out_dir, dirs, misc_files,
             module_state, module_files, examples_state, example_docs, cwd, log,
             mod_i, go_doc_calls>>

scaffoldVars == <<s_pc, s_fs, s_first, s_start>>

vars == <<is_readthedocs, versionVars, cleanVars, readmeVars, runVars, scaffoldVars>>

\* What the actions of one component leave alone.
versionFrame == <<cleanVars, readmeVars, runVars, scaffoldVars>>
cleanFrame == <<is_readthedocs, versionVars, readmeVars, runVars, scaffoldVars>>
readmeFrame == <<is_readthedocs, versionVars, cleanVars, runVars, scaffoldVars>>
runFrame ==
    <<is_readthedocs, versionVars, cleanVars, readme_exists, readme, r_pc, scaffoldVars>>
scaffoldFrame == <<is_readthedocs, versionVars, cleanVars, readmeVars, runVars>>

(***************************************************************************)
(* Bounds of the model.                                                    *)
(***************************************************************************)
MaxVerLen == 2
MaxDocLines == 4
MaxReadmeLines == 4
NumModules == 2

(***************************************************************************)
(* Python str helpers.                                                     *)
(***************************************************************************)
\* Python None, told apart from every str: its one element is not a character.
None == <<"None">>

\* bool(x) of an Optional[str]: None and "" are falsy.
Truthy(s) == s # None /\ s # <<>>

IsSpace(c) == c \in {" ", "\t", "\n", "\r"}

RECURSIVE LStrip(_)
LStrip(s) ==
    IF s = <<>> THEN <<>>
    ELSE IF IsSpace(Head(s)) THEN LStrip(Tail(s)) ELSE s

RECURSIVE RStrip(_)
RStrip(s) ==
    IF s = <<>> THEN <<>>
    ELSE IF IsSpace(s[Len(s)]) THEN RStrip(SubSeq(s, 1, Len(s) - 1)) ELSE s

\* str.strip()
Strip(s) == RStrip(LStrip(s))

\* str.startswith(p)
StartsWith(s, p) == Len(s) >= Len(p) /\ SubSeq(s, 1, Len(p)) = p

(***************************************************************************)
(* The version resolver.                                                   *)
(***************************************************************************)
DefaultVersion == <<"0",".","3",".","4","5">>
Latest == <<"l","a","t","e","s","t">>
Stable == <<"s","t","a","b","l","e">>

VerChars == {"v", " ", "1"}
VerStrings == UNION {[1..k -> VerChars] : k \in 0..MaxVerLen}

\* The values an environment variable may hold (None: not set).
EnvValues == VerStrings \cup {None, Latest, Stable}

\* subprocess.run(["git", "describe", "--tags"], ...): it returns with a return
\* code and a standard output, or raises (git missing, timeout).
GitResults ==
    [kind : {"returned"}, returncode : {0}, stdout : VerStrings]
    \cup [kind : {"returned"}, returncode : {128}, stdout : {<<>>}]
    \cup [kind : {"raised"}, returncode : {0}, stdout : {<<>>}]

get_project_version_from_git(g) ==
    IF g.kind = "raised" THEN DefaultVersion
    ELSE IF g.returncode = 0 THEN Strip(g.stdout)
    ELSE DefaultVersion

\* The value of version at line 56, before it is stripped.
VersionCandidate(rtd, ev, erv, g) ==
    IF ~rtd THEN get_project_version_from_git(g)
    ELSE LET version == IF ~Truthy(ev) THEN erv ELSE ev
         IN  IF Truthy(version) /\ (version = Latest \/ version = Stable)
             THEN get_project_version_from_git(g)
             ELSE version

\* Whether get_project_version runs the git subprocess.
GitIsQueried(rtd, ev, erv) ==
    \/ ~rtd
    \/ LET version == IF ~Truthy(ev) THEN erv ELSE ev
       IN  Truthy(version) /\ (version = Latest \/ version = Stable)

\* Nothing in the try block raises (get_project_version_from_git catches every
\* exception itself), so the except branch of line 66 is never taken.
get_project_version(rtd, ev, erv, g) ==
    LET version == VersionCandidate(rtd, ev, erv, g)
    IN  IF Truthy(version) /\ Strip(version) # <<>>
        THEN LET stripped == Strip(version)
             IN  IF StartsWith(stripped, <<"v">>) THEN Tail(stripped)
                 ELSE stripped
        ELSE DefaultVersion

(***************************************************************************)
(* Texts of several lines.                                                 *)
(***************************************************************************)
\* The text "": split('\n') gives one empty line.
EmptyText == << <<>> >>

\* '\n'.join(ls), as the lines of the joined text.
JoinLines(ls) == IF ls = <<>> THEN EmptyText ELSE ls

RECURSIVE DropBlankHead(_)
DropBlankHead(t) ==
    IF t = <<>> THEN <<>>
    ELSE IF Strip(Head(t)) = <<>> THEN DropBlankHead(Tail(t))
    ELSE <<LStrip(Head(t))>> \o Tail(t)

RECURSIVE DropBlankTail(_)
DropBlankTail(t) ==
    IF t = <<>> THEN <<>>
    ELSE IF Strip(t[Len(t)]) = <<>> THEN DropBlankTail(SubSeq(t, 1, Len(t) - 1))
    ELSE SubSeq(t, 1, Len(t) - 1) \o <<RStrip(t[Len(t)])>>

\* str.strip() of a text kept as its lines: a line break is white space too.
StripText(t) ==
    LET r == DropBlankTail(DropBlankHead(t))
    IN  IF r = <<>> THEN EmptyText ELSE r

\* s.replace("'", "\\'").replace('"', '\\"')
RECURSIVE EscapeQuotes(_)
EscapeQuotes(s) ==
    IF s = <<>> THEN <<>>
    ELSE IF Head(s) \in {"'", "\""} THEN <<"\\", Head(s)>> \o EscapeQuotes(Tail(s))
    ELSE <<Head(s)>> \o EscapeQuotes(Tail(s))

(***************************************************************************)
(* The go-doc output cleaner.                                              *)
(***************************************************************************)
ConstantsToken == <<"C","O","N","S","T","A","N","T","S">>
TypesToken == <<"T","Y","P","E","S">>
\* The grave accent U+0060, written by name: SANY's lexer pairs a grave accent
\* with a later apostrophe, also inside strings.
GraveAccent == "U+0060"
Fence == <<GraveAccent, GraveAccent, GraveAccent>>
CommentMarker == <<"/","/">>

DeclKeywords ==
    { <<"f","u","n","c"," ">>, <<"t","y","p","e"," ">>,
      <<"c","o","n","s","t"," ">>, <<"v","a","r"," ">>,
      <<"p","a","c","k","a","g","e"," ">>, <<"i","m","p","o","r","t"," ">> }

\* The test of lines 370-375, on the stripped line.
IsDeclLine(stripped_line) == \E k \in DeclKeywords : StartsWith(stripped_line, k)

\* The lines the scanned text is made of.
CleanLineKinds ==
    { <<>>,
      <<"f","u","n","c"," ","A">>,
      <<" ","v","a","r"," ","b">>,
      ConstantsToken,
      <<" ">> \o TypesToken,
      <<"/","/"," ","c">>,
      <<"i","t","'","s">> }

DocOutputs == UNION {[1..k -> CleanLineKinds] : k \in 1..MaxDocLines}

\* The locals of clean_go_doc_output at the head of its for loop.
CleanerStart ==
    [cleaned_lines |-> <<>>, in_code_block |-> FALSE, code_block_content |-> <<>>,
     constants_removed |-> FALSE, types_removed |-> FALSE]

\* Lines 381-383 and 416-418: the block, between two fences.
EmitBlock(cleaned, content) == cleaned \o <<Fence>> \o content \o <<Fence>>

\* A slip: the flag is never set, so every CONSTANTS line is taken for the first.
MarkConstantsRemoved_Forgotten(st) == st

MarkConstantsRemoved(st) == [st EXCEPT !.constants_removed = TRUE]

MarkTypesRemoved(st) == [st EXCEPT !.types_removed = TRUE]

\* A slip: a declaration line read while a block is open joins that block.
StartCodeBlock_Joins(st, stripped_line) ==
    IF st.in_code_block
    THEN [st EXCEPT !.code_block_content = Append(@, stripped_line)]
    ELSE [st EXCEPT !.in_code_block = TRUE, !.code_block_content = <<stripped_line>>]

\* Lines 377-389: a declaration line closes the open block and starts a new one.
StartCodeBlock(st, stripped_line) ==
    [st EXCEPT
        !.cleaned_lines =
            IF st.in_code_block /\ st.code_block_content # <<>>
            THEN EmitBlock(st.cleaned_lines, st.code_block_content)
            ELSE st.cleaned_lines,
        !.in_code_block = TRUE,
        !.code_block_content = <<stripped_line>>]

\* A slip: any other line read while a block is open closes the block and is
\* emitted after it.
ContinueCodeBlock_Closes(st, line) ==
    [st EXCEPT
        !.cleaned_lines =
            IF Strip(line) # <<>>
            THEN Append(EmitBlock(@, st.code_block_content), Strip(line))
            ELSE EmitBlock(@, st.code_block_content),
        !.in_code_block = FALSE,
        !.code_block_content = <<>>]

\* Lines 391-397: any other line read while a block is open goes into the block.
ContinueCodeBlock(st, line) ==
    [st EXCEPT !.code_block_content =
        IF Strip(line) # <<>> THEN Append(@, Strip(line)) ELSE Append(@, <<>>)]

\* Lines 399-405: a Go comment outside a block.
CommentLine(st, line) ==
    LET comment == Strip(SubSeq(Strip(line), 3, Len(Strip(line))))
    IN  IF comment # <<>>
        THEN [st EXCEPT !.cleaned_lines =
                 Append(@, <<"*">> \o EscapeQuotes(comment) \o <<"*">>)]
        ELSE st

\* Lines 407-411: any other line that is not blank, outside a block.
TextLine(st, line) ==
    [st EXCEPT !.cleaned_lines = Append(@, EscapeQuotes(Strip(line)))]

\* One pass of the for loop of lines 355-411.
CleanStep(st, line) ==
    LET stripped_line == Strip(line)
    IN  IF st.cleaned_lines = <<>> /\ Strip(line) = <<>> THEN st
        ELSE IF ~st.constants_removed /\ stripped_line = ConstantsToken
             THEN MarkConstantsRemoved(st)
        ELSE IF ~st.types_removed /\ stripped_line = TypesToken
             THEN MarkTypesRemoved(st)
        ELSE IF IsDeclLine(stripped_line) THEN StartCodeBlock(st, stripped_line)
        ELSE IF st.in_code_block THEN ContinueCodeBlock(st, line)
        ELSE IF StartsWith(Strip(line), CommentMarker) THEN CommentLine(st, line)
        ELSE IF Strip(line) # <<>> THEN TextLine(st, line)
        ELSE st

\* A slip: the block still open after the last line is forgotten.
CloseRemainingBlock_Forgotten(st) == st

\* Lines 413-418: the block still open after the last line.
CloseRemainingBlock(st) ==
    IF st.in_code_block /\ st.code_block_content # <<>>
    THEN [st EXCEPT !.cleaned_lines = EmitBlock(@, st.code_block_content)]
    ELSE st

\* Line 420.
CleanReturn(st) == StripText(JoinLines(st.cleaned_lines))

RECURSIVE CleanLoop(_, _)
CleanLoop(st, ls) ==
    IF ls = <<>> THEN st ELSE CleanLoop(CleanStep(st, Head(ls)), Tail(ls))

\* clean_go_doc_output as a function of its argument.
clean_go_doc_output(doc) ==
    IF doc = EmptyText THEN EmptyText
    ELSE CleanReturn(CloseRemainingBlock(CleanLoop(CleanerStart, Tail(doc))))

CleanerLocals ==
    [cleaned_lines |-> cleaned_lines, in_code_block |-> in_code_block,
     code_block_content |-> code_block_content,
     constants_removed |-> constants_removed, types_removed |-> types_removed]

SetCleanerLocals(st) ==
    /\ cleaned_lines' = st.cleaned_lines
    /\ in_code_block' = st.in_code_block
    /\ code_block_content' = st.code_block_content
    /\ constants_removed' = st.constants_removed
    /\ types_removed' = st.types_removed

CleanInit ==
    /\ doc_output \in DocOutputs
    /\ c_pc = "start"
    /\ lines = <<>>
    /\ c_i = 1
    /\ cleaned_lines = <<>>
    /\ in_code_block = FALSE
    /\ code_block_content = <<>>
    /\ constants_removed = FALSE
    /\ types_removed = FALSE
    /\ clean_result = EmptyText

\* Lines 340-341: nothing to clean.
CleanEmpty ==
    /\ c_pc = "start"
    /\ doc_output = EmptyText
    /\ c_pc' = "done"
    /\ clean_result' = EmptyText
    /\ UNCHANGED <<doc_output, lines, c_i, cleaned_lines, in_code_block,
                   code_block_content, constants_removed, types_removed>>
    /\ UNCHANGED cleanFrame

\* Lines 343-353: split, drop the first line, set the locals.
CleanBegin ==
    /\ c_pc = "start"
    /\ doc_output # EmptyText
    /\ lines' = Tail(doc_output)
    /\ c_i' = 1
    /\ SetCleanerLocals(CleanerStart)
    /\ c_pc' = "loop"
    /\ UNCHANGED <<doc_output, clean_result>>
    /\ UNCHANGED cleanFrame

CleanLine ==
    /\ c_pc = "loop"
    /\ c_i <= Len(lines)
    /\ SetCleanerLocals(CleanStep(CleanerLocals, lines[c_i]))
    /\ c_i' = c_i + 1
    /\ UNCHANGED <<doc_output, c_pc, lines, clean_result>>
    /\ UNCHANGED cleanFrame

CleanFinish ==
    /\ c_pc = "loop"
    /\ c_i > Len(lines)
    /\ SetCleanerLocals(CloseRemainingBlock(CleanerLocals))
    /\ clean_result' = CleanReturn(CloseRemainingBlock(CleanerLocals))
    /\ c_pc' = "done"
    /\ UNCHANGED <<doc_output, lines, c_i>>
    /\ UNCHANGED cleanFrame


(***************************************************************************)
(* More of Python's str: lower(), title(), replace().                      *)
(***************************************************************************)
LowerLetters ==
    <<"a","b","c","d","e","f","g","h","i","j","k","l","m",
      "n","o","p","q","r","s","t","u","v","w","x","y","z">>
UpperLetters ==
    <<"A","B","C","D","E","F","G","H","I","J","K","L","M",
      "N","O","P","Q","R","S","T","U","V","W","X","Y","Z">>
Digits == {"0","1","2","3","4","5","6","7","8","9"}

LowerSet == {LowerLetters[i] : i \in DOMAIN LowerLetters}
UpperSet == {UpperLetters[i] : i \in DOMAIN UpperLetters}

IsLower(c) == c \in LowerSet
IsUpper(c) == c \in UpperSet
IsLetter(c) == IsLower(c) \/ IsUpper(c)

\* The lower-case letter of each upper-case letter, and the reverse.
ToLower ==
    [c \in UpperSet |->
        LowerLetters[CHOOSE i \in DOMAIN UpperLetters : UpperLetters[i] = c]]
ToUpper ==
    [c \in LowerSet |->
        UpperLetters[CHOOSE i \in DOMAIN LowerLetters : LowerLetters[i] = c]]

LowerChar(c) == IF IsUpper(c) THEN ToLower[c] ELSE c

UpperChar(c) == IF IsLower(c) THEN ToUpper[c] ELSE c

\* str.lower()
Lower(s) == [i \in DOMAIN s |-> LowerChar(s[i])]

\* str.title(): a letter that follows a letter is lowered, any other letter is
\* raised.
Title(s) ==
    [i \in DOMAIN s |->
        IF i > 1 /\ IsLetter(s[i - 1]) THEN LowerChar(s[i]) ELSE UpperChar(s[i])]

\* str.replace(a, b) for single characters.
ReplaceChar(s, a, b) == [i \in DOMAIN s |-> IF s[i] = a THEN b ELSE s[i]]

(***************************************************************************)
(* The README sectionizer.                                                 *)
(***************************************************************************)
H1Marker == <<"#"," ">>
H2Marker == <<"#","#"," ">>
H3Marker == <<"#","#","#"," ">>
Introduction == <<"i","n","t","r","o","d","u","c","t","i","o","n">>

\* The lines a README is made of.
ReadmeLineKinds ==
    { <<>>,
      <<"t">>,
      <<"#"," ","T">>,
      <<"#","#","#"," ","s">>,
      <<"#","#"," ","I","n","s","t","a","l","l","a","t","i","o","n">>,
      <<"#","#"," ","U","s","a","g","e">>,
      <<"#","#"," ","R","e","g","i","o","n","s">>,
      <<"#","#"," ","G","l","o","b","a","l"," ","S","e","r","v","i","c","e","s">>,
      <<"#","#"," ","P","r","o","j","e","c","t"," ","S","t","r","u","c","t","u","r","e">> }

Readmes == UNION {[1..k -> ReadmeLineKinds] : k \in 1..MaxReadmeLines}

\* A dict, in insertion order: a sequence of [key, val] with no key twice.
DictHas(d, k) == \E i \in DOMAIN d : d[i].key = k

DictGet(d, k) == d[CHOOSE i \in DOMAIN d : d[i].key = k].val

\* d[k] = v: a key the dict holds keeps its place.
DictSet(d, k, v) ==
    IF DictHas(d, k)
    THEN [i \in DOMAIN d |-> IF d[i].key = k THEN [key |-> k, val |-> v] ELSE d[i]]
    ELSE Append(d, [key |-> k, val |-> v])

\* re.sub(r'[^a-z0-9\s-]', '', s)
RECURSIVE RemoveOtherChars(_)
RemoveOtherChars(s) ==
    IF s = <<>> THEN <<>>
    ELSE IF IsLower(Head(s)) \/ Head(s) \in Digits \/ IsSpace(Head(s)) \/ Head(s) = "-"
         THEN <<Head(s)>> \o RemoveOtherChars(Tail(s))
         ELSE RemoveOtherChars(Tail(s))

\* re.sub(r'\s+', '-', s): a run of white space becomes one hyphen.
RECURSIVE HyphenateSpaces(_)
HyphenateSpaces(s) ==
    IF s = <<>> THEN <<>>
    ELSE IF IsSpace(Head(s)) THEN <<"-">> \o HyphenateSpaces(LStrip(s))
    ELSE <<Head(s)>> \o HyphenateSpaces(Tail(s))

\* Lines 197-199: the section a level-2 heading names.
SectionName(line) ==
    HyphenateSpaces(RemoveOtherChars(Lower(Strip(SubSeq(line, 4, Len(line))))))

\* The locals sections and current_section before the loop of line 195.
SectionizerStart == [sections |-> <<>>, current_section |-> Introduction]

\* Lines 196-201: a level-2 heading starts a section, emptying one of that name.
StartSection(st, line) ==
    [sections |-> DictSet(st.sections, SectionName(line), <<>>),
     current_section |-> SectionName(line)]

\* Lines 202-205: a level-1 heading makes the introduction that line alone.
StartIntroduction(st, line) ==
    [sections |-> DictSet(st.sections, Introduction, <<line>>),
     current_section |-> Introduction]

\* Lines 206-209: any other line joins the current section.
AppendToSection(st, line) ==
    LET secs == IF ~DictHas(st.sections, st.current_section)
                THEN DictSet(st.sections, st.current_section, <<>>)
                ELSE st.sections
    IN  [st EXCEPT !.sections =
            DictSet(secs, st.current_section,
                    Append(DictGet(secs, st.current_section), line))]

\* One pass of the for loop of lines 195-209.
ReadmeStep(st, line) ==
    IF StartsWith(line, H2Marker) THEN StartSection(st, line)
    ELSE IF StartsWith(line, H1Marker) THEN StartIntroduction(st, line)
    ELSE AppendToSection(st, line)

RECURSIVE ReadmeLoop(_, _)
ReadmeLoop(st, ls) ==
    IF ls = <<>> THEN st ELSE ReadmeLoop(ReadmeStep(st, Head(ls)), Tail(ls))

\* Lines 212-213: every list of lines is joined and stripped.
JoinSections(d) ==
    [i \in DOMAIN d |->
        [key |-> d[i].key, val |-> StripText(JoinLines(d[i].val))]]

\* extract_readme_content as a function of the README (lines 183-185: none).
extract_readme_content(exists, content) ==
    IF ~exists THEN <<>>
    ELSE JoinSections(ReadmeLoop(SectionizerStart, content).sections)

(***************************************************************************)
(* The page writer.                                                        *)
(***************************************************************************)
\* Lines 222-232.
section_files ==
    << [key |-> Introduction, val |-> "introduction.md"],
       [key |-> <<"i","n","s","t","a","l","l","a","t","i","o","n">>,
        val |-> "installation.md"],
       [key |-> <<"a","u","t","h","e","n","t","i","c","a","t","i","o","n">>,
        val |-> "authentication.md"],
       [key |-> <<"r","e","g","i","o","n","s">>, val |-> "regions.md"],
       [key |-> <<"g","l","o","b","a","l","-","s","e","r","v","i","c","e","s">>,
        val |-> "regions.md"],
       [key |-> <<"p","r","o","j","e","c","t","-","s","t","r","u","c","t","u","r","e">>,
        val |-> "project-structure.md"],
       [key |-> <<"u","s","a","g","e","-","e","x","a","m","p","l","e","s">>,
        val |-> "usage.md"],
       [key |-> <<"e","r","r","o","r","-","h","a","n","d","l","i","n","g">>,
        val |-> "error-handling.md"],
       [key |-> <<"c","o","n","t","r","i","b","u","t","i","n","g">>,
        val |-> "contributing.md"] >>

PageNames == {section_files[i].val : i \in DOMAIN section_files}

\* A file that does not exist: a file's text has at least one line.
NoFile == <<>>

\* Line 240.
SectionTitle(section) == Title(ReplaceChar(section, "-", " "))

\* Lines 246-251: a level-3 heading becomes a level-2 heading.
DemoteHeading(line) ==
    IF StartsWith(line, H3Marker)
    THEN H2Marker \o SubSeq(line, Len(H3Marker) + 1, Len(line))
    ELSE line

\* Lines 255-262: the front matter, the title, the content, a last line break.
MarkdownContent(title, content) ==
    << <<"-","-","-">>,
       <<"t","i","t","l","e",":"," ">> \o title,
       <<"-","-","-">>,
       <<>>,
       H1Marker \o title,
       <<>> >>
    \o [i \in DOMAIN content |-> DemoteHeading(content[i])]
    \o << <<>> >>

\* Line 235: the sections that are written.
IsWritten(section, content) ==
    DictHas(section_files, section) /\ StripText(content) # EmptyText

\* A slip: the section name is written as the title, not titleized.
WriteSection_RawTitle(fs, section, content) ==
    [fs EXCEPT ![DictGet(section_files, section)] =
        MarkdownContent(section, content)]

\* Lines 236-265: one section written to its file.
WriteSection(fs, section, content) ==
    [fs EXCEPT ![DictGet(section_files, section)] =
        MarkdownContent(SectionTitle(section), content)]

\* The for loop of lines 234-266, over the sections in the dict's order.
RECURSIVE WriteSections(_, _)
WriteSections(fs, d) ==
    IF d = <<>> THEN fs
    ELSE WriteSections(
             IF IsWritten(Head(d).key, Head(d).val)
             THEN WriteSection(fs, Head(d).key, Head(d).val)
             ELSE fs,
             Tail(d))

\* Lines 505-572, of which the first line is kept: the page is constant text.
structure_content ==
    << <<"#"," ","P","r","o","j","e","c","t"," ","S","t","r","u","c","t","u","r","e">>,
       <<>> >>

ReadmeInit ==
    /\ readme_exists \in BOOLEAN
    /\ readme \in (IF readme_exists THEN Readmes ELSE {EmptyText})
    /\ readme_sections = <<>>
    /\ r_pc = "start"
    /\ pages = [f \in PageNames |-> NoFile]

\* extract_readme_content, lines 180-215.
ExtractReadmeContent ==
    /\ r_pc = "start"
    /\ readme_sections' = extract_readme_content(readme_exists, readme)
    /\ r_pc' = "extracted"
    /\ UNCHANGED <<readme_exists, readme, pages>>
    /\ UNCHANGED readmeFrame

\* create_markdown_files, lines 217-266.
CreateMarkdownFiles ==
    /\ r_pc = "extracted"
    /\ pages' = WriteSections(pages, readme_sections)
    /\ r_pc' = "written"
    /\ UNCHANGED <<readme_exists, readme, readme_sections>>
    /\ UNCHANGED readmeFrame

\* create_project_structure_documentation, lines 503-577.
CreateProjectStructureDocumentation ==
    /\ r_pc = "written"
    /\ pages' = [pages EXCEPT !["project-structure.md"] = structure_content]
    /\ r_pc' = "structured"
    /\ UNCHANGED <<readme_exists, readme, readme_sections>>
    /\ UNCHANGED readmeFrame

(***************************************************************************)
(* The pipeline: what each step does to the file system, the log and the   *)
(* working directory, for each way its calls can end.  An exception that   *)
(* no handler catches leaves run(): the run is aborted, no banner printed. *)
(***************************************************************************)
\* Lines 36-40.
AllGoModules ==
    << <<"c","l","i","e","n","t">>,
       <<"c","o","m","p","u","t","e">>,
       <<"b","l","o","c","k","s","t","o","r","a","g","e">>,
       <<"n","e","t","w","o","r","k">>,
       <<"k","u","b","e","r","n","e","t","e","s">>,
       <<"d","b","a","a","s">>,
       <<"c","o","n","t","a","i","n","e","r","r","e","g","i","s","t","r","y">>,
       <<"s","s","h","k","e","y","s">>,
       <<"a","v","a","i","l","a","b","i","l","i","t","y","z","o","n","e","s">>,
       <<"a","u","d","i","t">>,
       <<"l","b","a","a","s">>,
       <<"h","e","l","p","e","r","s">> >>

\* The modules the model runs the loop of line 277 over: the first NumModules.
go_modules == SubSeq(AllGoModules, 1, NumModules)

ModuleSet == {go_modules[i] : i \in DOMAIN go_modules}

\* A log line about no module or example in particular.
NoSubject == <<>>

\* The README of a run, when there is one.
RunReadme ==
    << <<"#"," ","T">>,
       <<"#","#"," ","I","n","s","t","a","l","l","a","t","i","o","n">>,
       <<"t">> >>

\* What go doc -all <module> prints when it succeeds.
GoDocStdout ==
    << <<"p","a","c","k","a","g","e"," ","x">>,
       <<>>,
       <<"f","u","n","c"," ","A">>,
       <<"i","t","'","s">> >>

\* The ways the calls of get_go_doc_for_package can end: os.chdir raises; the
\* subprocess raises FileNotFoundError or TimeoutExpired; it returns a status
\* that is not 0, or nothing on its standard output, or the documentation.
GoDocOutcomes == {"chdir_error", "notfound", "timeout", "nonzero", "empty", "ok"}

GoDocFailures == GoDocOutcomes \ {"ok"}

\* A slip: only TimeoutExpired is caught, any other exception leaves the call.
get_go_doc_for_package_Uncaught(outcome, cwd0) ==
    [raised |-> outcome \in {"chdir_error", "notfound"},
     ret |-> IF outcome = "ok" THEN clean_go_doc_output(GoDocStdout) ELSE EmptyText,
     cwd |-> IF outcome \in {"notfound", "timeout"} THEN "project_root" ELSE cwd0,
     warning |-> CASE outcome = "ok" -> "none"
                   [] outcome \in {"nonzero", "empty"} -> "no_package_doc"
                   [] outcome = "timeout" -> "timeout_doc"
                   [] OTHER -> "none"]

\* get_go_doc_for_package, lines 311-336: whether an exception leaves it, the
\* value returned, the working directory after it and the warning printed.
\* os.chdir(original_cwd) of line 323 is run only when the subprocess returned.
get_go_doc_for_package(outcome, cwd0) ==
    [raised |-> FALSE,
     ret |-> IF outcome = "ok" THEN clean_go_doc_output(GoDocStdout) ELSE EmptyText,
     cwd |-> IF outcome \in {"notfound", "timeout"} THEN "project_root" ELSE cwd0,
     warning |-> CASE outcome = "ok" -> "none"
                   [] outcome \in {"nonzero", "empty"} -> "no_package_doc"
                   [] outcome = "timeout" -> "timeout_doc"
                   [] OTHER -> "error_doc"]

\* Lines 295-302: the title and, when there is one, the documentation.
ModuleContent(module_name, package_doc) ==
    IF package_doc # EmptyText
    THEN << H1Marker \o Title(module_name), <<>> >> \o package_doc \o << <<>>, <<>> >>
    ELSE << H1Marker \o Title(module_name), <<>>, <<>> >>

\* Lines 581-585.
requirements ==
    << <<"s","p","h","i","n","x",">","=","7",".","0",".","0">>,
       <<"s","p","h","i","n","x","-","r","t","d","-","t","h","e","m","e",">","=","1",".","3",".","0">>,
       <<"m","y","s","t","-","p","a","r","s","e","r",">","=","2",".","0",".","0">>,
       <<"s","p","h","i","n","x","-","c","o","p","y","b","u","t","t","o","n",">","=","0",".","5",".","0">>,
       <<>> >>

\* A module get_go_doc_for_package was not called for.
NotCalled == [outcome |-> "none", raised |-> FALSE, ret |-> EmptyText]

\* The one example of cmd/examples, when the directory is there.
ExampleName == <<"s","s","h","_","k","e","y","s">>

\* Line 459.
ExampleDisplayName == ReplaceChar(ExampleName, "_", "-")

\* Its main.go: a comment line, then code.
ExampleSource == << <<"/","/"," ","c">>, <<"f","u","n","c"," ","A">>, <<>> >>

\* Lines 462-492: the title, the first comment when the file was read (the text
\* after the marker, stripped), and the source or the line that stands for it.
ExamplePage(name, comment_read, source_read) ==
    [title |-> Title(name),
     comment |-> IF comment_read
                 THEN Strip(SubSeq(ExampleSource[1], 3, Len(ExampleSource[1])))
                 ELSE None,
     source |-> IF source_read THEN ExampleSource ELSE <<"error reading example file">>]

\* Lines 112-128 and 155-166: the example pages and the module pages listed.
IndexContent(examples) ==
    [examples |-> IF examples = "present" THEN <<ExampleDisplayName>> ELSE <<>>,
     modules |-> AllGoModules]

Goto(step) == p_pc' = step /\ UNCHANGED <<abort_cause, banner>>

\* An exception leaves run() and main(): the process ends with a traceback.
Abort(cause) == p_pc' = "aborted" /\ abort_cause' = cause /\ UNCHANGED banner

Warn(kind, subject) == log' = log \cup {<<kind, subject>>}

RunInit ==
    /\ p_pc = "check_go"
    /\ abort_cause = "none"
    /\ banner = FALSE
    /\ go_available = FALSE
    /\ out_dir \in (IF is_readthedocs THEN {"undefined"} ELSE {"absent", "full"})
    /\ dirs = IF is_readthedocs THEN {"source"} ELSE {}
    /\ misc_files = [f \in {"requirements.txt", "index.rst"} |-> NoFile]
    /\ module_state \in [ModuleSet -> {"absent", "nogo", "go"}]
    /\ module_files = [m \in ModuleSet |-> NoFile]
    /\ examples_state \in {"absent", "present"}
    /\ example_docs = [e \in {ExampleDisplayName} |-> NoFile]
    /\ cwd = "original"
    /\ log = {}
    /\ mod_i = 1
    /\ go_doc_calls = [m \in ModuleSet |-> NotCalled]
    /\ readme_exists \in BOOLEAN
    /\ readme = IF readme_exists THEN RunReadme ELSE EmptyText
    /\ readme_sections = <<>>
    /\ r_pc = "start"
    /\ pages = [f \in PageNames |-> NoFile]

\* Step 1, check_go_availability (lines 422-437): every exception is caught.
CheckGoAvailability ==
    /\ p_pc = "check_go"
    /\ \E outcome \in {"ok", "nonzero", "notfound", "error"} :
           /\ go_available' = (outcome = "ok")
           /\ IF outcome = "ok" THEN UNCHANGED log
              ELSE Warn("continuing_without_go", NoSubject)
    /\ Goto("clean_output")
    /\ UNCHANGED <<out_dir, dirs, misc_files, module_state, module_files,
                   examples_state, example_docs, cwd, mod_i, go_doc_calls,
                   readme_sections, pages>>
    /\ UNCHANGED runFrame

\* Step 2, clean_output_directory (lines 82-92): every exception is caught.  On
\* Read the Docs self.output_dir was never set (lines 21-27): AttributeError.
CleanOutputDirectory ==
    /\ p_pc = "clean_output"
    /\ \E outcome \in {"ok", "rmtree_error", "mkdir_error"} :
           IF is_readthedocs
           THEN /\ outcome = "ok"
                /\ Warn("error_cleaning_output", NoSubject)
                /\ UNCHANGED out_dir
           ELSE /\ outcome = "rmtree_error" => out_dir # "absent"
                /\ out_dir' = CASE outcome = "ok" -> "empty"
                                [] outcome = "rmtree_error" -> out_dir
                                [] OTHER -> "absent"
                /\ IF outcome = "ok" THEN UNCHANGED log
                   ELSE Warn("error_cleaning_output", NoSubject)
    /\ Goto("sphinx_structure")
    /\ UNCHANGED <<go_available, dirs, misc_files, module_state, module_files,
                   examples_state, example_docs, cwd, mod_i, go_doc_calls,
                   readme_sections, pages>>
    /\ UNCHANGED runFrame

\* The directories create_sphinx_structure makes, in its order.
SphinxDirs == <<"source", "_static", "_templates">>

\* Step 3, create_sphinx_structure (lines 94-103): no handler.  mkdir raises
\* only for a directory that is not there yet (exist_ok=True).
CreateSphinxStructure ==
    /\ p_pc = "sphinx_structure"
    /\ \E fail_at \in 0..Len(SphinxDirs) :
           IF fail_at = 0
           THEN /\ dirs' = dirs \cup {SphinxDirs[i] : i \in DOMAIN SphinxDirs}
                /\ Goto("requirements")
           ELSE /\ SphinxDirs[fail_at] \notin dirs
                /\ dirs' = dirs \cup {SphinxDirs[i] : i \in 1..(fail_at - 1)}
                /\ Abort("mkdir_structure")
    /\ UNCHANGED <<go_available, out_dir, misc_files, module_state, module_files,
                   examples_state, example_docs, cwd, log, mod_i, go_doc_calls,
                   readme_sections, pages>>
    /\ UNCHANGED runFrame

\* Step 4, create_requirements_txt (lines 579-589): no handler.
CreateRequirementsTxt ==
    /\ p_pc = "requirements"
    /\ \E written \in BOOLEAN :
           IF written
           THEN /\ misc_files' = [misc_files EXCEPT !["requirements.txt"] = requirements]
                /\ Goto("extract_readme")
           ELSE /\ UNCHANGED misc_files
                /\ Abort("write_requirements")
    /\ UNCHANGED <<go_available, out_dir, dirs, module_state, module_files,
                   examples_state, example_docs, cwd, log, mod_i, go_doc_calls,
                   readme_sections, pages>>
    /\ UNCHANGED runFrame

\* Step 5, extract_readme_content (lines 180-215): a missing README is reported,
\* an error of open() or read() has no handler.
RunExtractReadmeContent ==
    /\ p_pc = "extract_readme"
    /\ \E read \in BOOLEAN :
           IF read \/ ~readme_exists
           THEN /\ read
                /\ readme_sections' = extract_readme_content(readme_exists, readme)
                /\ IF readme_exists THEN UNCHANGED log
                   ELSE Warn("readme_not_found", NoSubject)
                /\ Goto("markdown_files")
           ELSE /\ UNCHANGED <<readme_sections, log>>
                /\ Abort("read_readme")
    /\ UNCHANGED <<go_available, out_dir, dirs, misc_files, module_state,
                   module_files, examples_state, example_docs, cwd, mod_i,
                   go_doc_calls, pages>>
    /\ UNCHANGED runFrame

\* Step 6, create_markdown_files (lines 217-266): no handler; the sections
\* before the one whose write fails are written.
RunCreateMarkdownFiles ==
    /\ p_pc = "markdown_files"
    /\ \E fail_at \in 0..Len(readme_sections) :
           IF fail_at = 0
           THEN /\ pages' = WriteSections(pages, readme_sections)
                /\ Goto("modules")
           ELSE /\ IsWritten(readme_sections[fail_at].key, readme_sections[fail_at].val)
                /\ pages' = WriteSections(pages, SubSeq(readme_sections, 1, fail_at - 1))
                /\ Abort("write_page")
    /\ UNCHANGED <<go_available, out_dir, dirs, misc_files, module_state,
                   module_files, examples_state, example_docs, cwd, log, mod_i,
                   go_doc_calls, readme_sections>>
    /\ UNCHANGED runFrame

\* Step 7, create_modules_documentation up to its loop (lines 268-274): no
\* handler around mkdir.
CreateModulesDirectory ==
    /\ p_pc = "modules"
    /\ \E made \in BOOLEAN :
           IF made
           THEN /\ dirs' = dirs \cup {"modules"}
                /\ mod_i' = 1
                /\ Goto("module_loop")
           ELSE /\ UNCHANGED <<dirs, mod_i>>
                /\ Abort("mkdir_modules")
    /\ UNCHANGED <<go_available, out_dir, misc_files, module_state, module_files,
                   examples_state, example_docs, cwd, log, go_doc_calls,
                   readme_sections, pages>>
    /\ UNCHANGED runFrame

\* A slip: the title-only page is written for a module that is not there.
ModuleNotFound_WritesPage(module_name) ==
    /\ Warn("module_not_found", module_name)
    /\ module_files' = [module_files EXCEPT ![module_name] =
                            ModuleContent(module_name, EmptyText)]
    /\ mod_i' = mod_i + 1
    /\ Goto("module_loop")
    /\ UNCHANGED <<cwd, go_doc_calls>>

\* Lines 284-286: the module has no directory under project_root; the warning
\* is printed and create_module_documentation returns.
ModuleNotFound(module_name) ==
    /\ Warn("module_not_found", module_name)
    /\ mod_i' = mod_i + 1
    /\ Goto("module_loop")
    /\ UNCHANGED <<module_files, cwd, go_doc_calls>>

\* One turn of the loop of line 277: create_module_documentation (lines 280-309)
\* for go_modules[mod_i].  Only the write of the module file has no handler.
CreateModuleDocumentation ==
    /\ p_pc = "module_loop"
    /\ mod_i <= Len(go_modules)
    /\ LET module_name == go_modules[mod_i] IN
       CASE module_state[module_name] = "absent" -> ModuleNotFound(module_name)
         [] module_state[module_name] = "nogo" ->
                /\ Warn("no_go_files", module_name)
                /\ mod_i' = mod_i + 1
                /\ Goto("module_loop")
                /\ UNCHANGED <<module_files, cwd, go_doc_calls>>
         [] OTHER ->
                \E outcome \in GoDocOutcomes, written \in BOOLEAN :
                    LET r == get_go_doc_for_package(outcome, cwd) IN
                    /\ go_doc_calls' = [go_doc_calls EXCEPT ![module_name] =
                            [outcome |-> outcome, raised |-> r.raised, ret |-> r.ret]]
                    /\ cwd' = r.cwd
                    /\ IF r.warning = "none" THEN UNCHANGED log
                       ELSE Warn(r.warning, module_name)
                    /\ IF r.raised
                       THEN /\ written
                            /\ Abort("go_doc")
                            /\ UNCHANGED <<module_files, mod_i>>
                       ELSE IF written
                       THEN /\ module_files' = [module_files EXCEPT ![module_name] =
                                    ModuleContent(module_name, r.ret)]
                            /\ mod_i' = mod_i + 1
                            /\ Goto("module_loop")
                       ELSE /\ Abort("write_module")
                            /\ UNCHANGED <<module_files, mod_i>>
    /\ UNCHANGED <<go_available, out_dir, dirs, misc_files, module_state,
                   examples_state, example_docs, readme_sections, pages>>
    /\ UNCHANGED runFrame

\* The loop of line 277 is over.
ModulesDone ==
    /\ p_pc = "module_loop"
    /\ mod_i > Len(go_modules)
    /\ Goto("examples")
    /\ UNCHANGED <<go_available, out_dir, dirs, misc_files, module_state,
                   module_files, examples_state, example_docs, cwd, log, mod_i,
                   go_doc_calls, readme_sections, pages>>
    /\ UNCHANGED runFrame

\* Step 8, create_examples_documentation (lines 439-501): the two reads of
\* main.go are guarded, mkdir, iterdir and the write of the page are not.
CreateExamplesDocumentation ==
    /\ p_pc = "examples"
    /\ IF examples_state = "absent"
       THEN /\ Warn("examples_not_found", NoSubject)
            /\ Goto("project_structure")
            /\ UNCHANGED <<dirs, example_docs>>
       ELSE \E outcome \in {"mkdir_error", "iterdir_error", "write_error", "ok"},
               comment_read \in BOOLEAN, source_read \in BOOLEAN :
                /\ outcome # "ok" => comment_read /\ source_read
                /\ outcome = "mkdir_error" => "examples" \notin dirs
                /\ dirs' = IF outcome = "mkdir_error" THEN dirs
                           ELSE dirs \cup {"examples"}
                /\ UNCHANGED log
                /\ IF outcome = "ok"
                   THEN /\ example_docs' = [example_docs EXCEPT ![ExampleDisplayName] =
                                ExamplePage(ExampleName, comment_read, source_read)]
                        /\ Goto("project_structure")
                   ELSE /\ UNCHANGED example_docs
                        /\ Abort(outcome)
    /\ UNCHANGED <<go_available, out_dir, misc_files, module_state, module_files,
                   examples_state, cwd, mod_i, go_doc_calls, readme_sections, pages>>
    /\ UNCHANGED runFrame

\* Step 9, create_project_structure_documentation (lines 503-577): no handler.
RunCreateProjectStructureDocumentation ==
    /\ p_pc = "project_structure"
    /\ \E written \in BOOLEAN :
           IF written
           THEN /\ pages' = [pages EXCEPT !["project-structure.md"] = structure_content]
                /\ Goto("index")
           ELSE /\ UNCHANGED pages
                /\ Abort("write_structure")
    /\ UNCHANGED <<go_available, out_dir, dirs, misc_files, module_state,
                   module_files, examples_state, example_docs, cwd, log, mod_i,
                   go_doc_calls, readme_sections>>
    /\ UNCHANGED runFrame

\* Step 10, create_index_rst (lines 106-178): no handler around iterdir or the
\* write.
CreateIndexRst ==
    /\ p_pc = "index"
    /\ \E outcome \in {"iterdir_error", "write_error", "ok"} :
           /\ outcome = "iterdir_error" => examples_state = "present"
           /\ IF outcome = "ok"
              THEN /\ misc_files' = [misc_files EXCEPT !["index.rst"] =
                                        IndexContent(examples_state)]
                   /\ Goto("install")
              ELSE /\ UNCHANGED misc_files
                   /\ Abort("index_" \o outcome)
    /\ UNCHANGED <<go_available, out_dir, dirs, module_state, module_files,
                   examples_state, example_docs, cwd, log, mod_i, go_doc_calls,
                   readme_sections, pages>>
    /\ UNCHANGED runFrame

\* Step 11, install_dependencies (lines 592-603), and the banner of lines
\* 645-646.  Only CalledProcessError is caught: when the interpreter cannot be
\* started (OSError) the exception leaves run() before the banner.
InstallDependencies ==
    /\ p_pc = "install"
    /\ \E outcome \in {"ok", "nonzero", "oserror"} :
           /\ IF outcome = "nonzero" THEN Warn("error_installing", NoSubject)
              ELSE UNCHANGED log
           /\ IF outcome = "oserror"
              THEN Abort("pip_not_started")
              ELSE /\ p_pc' = "done"
                   /\ banner' = TRUE
                   /\ UNCHANGED abort_cause
    /\ UNCHANGED <<go_available, out_dir, dirs, misc_files, module_state,
                   module_files, examples_state, example_docs, cwd, mod_i,
                   go_doc_calls, readme_sections, pages>>
    /\ UNCHANGED runFrame

(***************************************************************************)
(* The scaffolder on a file system whose state decides how each call ends: *)
(* what sits at docs/output, docs/source, source/_static and               *)
(* source/_templates, and what the process is allowed to do there.         *)
(***************************************************************************)
\* What can sit at a path: nothing, a regular file, a directory without or
\* with entries.
PathKinds == {"absent", "file", "empty", "full"}

IsDir(kind) == kind \in {"empty", "full"}

\* The file systems the scaffolder is started on.  On Read the Docs source_dir
\* is docs_dir (line 23), which is there; _static and _templates can be there
\* only inside a directory.
FileSystems(rtd) ==
    {fs \in [output : PathKinds, source : {"absent", "file", "dir"},
             static : PathKinds, templates : PathKinds,
             output_removable : BOOLEAN, docs_writable : BOOLEAN,
             source_writable : BOOLEAN] :
        /\ rtd => fs.source = "dir"
        /\ fs.source # "dir" => fs.static = "absent" /\ fs.templates = "absent"}

\* A slip: the directory is made only when there was none to remove.
clean_output_directory_NoRecreate(rtd, fs) ==
    CASE rtd -> fs
      [] fs.output = "absent" ->
             IF fs.docs_writable THEN [fs EXCEPT !.output = "empty"] ELSE fs
      [] fs.output = "file" \/ ~fs.output_removable -> fs
      [] OTHER -> [fs EXCEPT !.output = "absent"]

\* clean_output_directory, lines 82-92.  On Read the Docs self.output_dir does
\* not exist (lines 21-27) and the AttributeError is caught.  rmtree raises on
\* a regular file and on a tree it may not remove; mkdir raises where docs_dir
\* may not be written; every exception is caught at line 89.
clean_output_directory(rtd, fs) ==
    CASE rtd -> fs
      [] fs.output = "absent" ->
             IF fs.docs_writable THEN [fs EXCEPT !.output = "empty"] ELSE fs
      [] fs.output = "file" \/ ~fs.output_removable -> fs
      [] OTHER ->
             IF fs.docs_writable THEN [fs EXCEPT !.output = "empty"]
             ELSE [fs EXCEPT !.output = "absent"]

\* Path.mkdir(exist_ok=True) of a path of the given kind in a directory that
\* may or may not be written: the kind after it and whether it raised
\* (FileExistsError on a regular file, PermissionError).
Mkdir(kind, writable) ==
    CASE IsDir(kind) -> [kind |-> kind, raised |-> FALSE]
      [] kind = "file" -> [kind |-> kind, raised |-> TRUE]
      [] OTHER -> IF writable THEN [kind |-> "empty", raised |-> FALSE]
                  ELSE [kind |-> kind, raised |-> TRUE]

\* create_sphinx_structure, lines 94-103: three mkdir in a row, none guarded,
\* so the first that raises ends the call.
create_sphinx_structure(fs) ==
    LET src == Mkdir(IF fs.source = "dir" THEN "full" ELSE fs.source, fs.docs_writable)
        fs1 == [fs EXCEPT !.source = IF src.raised THEN fs.source ELSE "dir"]
        sta == Mkdir(fs1.static, fs1.source_writable)
        fs2 == [fs1 EXCEPT !.static = sta.kind]
        tpl == Mkdir(fs2.templates, fs2.source_writable)
        fs3 == [fs2 EXCEPT !.templates = tpl.kind]
    IN  CASE src.raised -> fs1
          [] sta.raised -> fs2
          [] OTHER -> fs3

ScaffoldInit ==
    /\ s_pc = "clean_1"
    /\ s_fs \in FileSystems(is_readthedocs)
    /\ s_first = s_fs
    /\ s_start = s_fs

ScaffoldIdle ==
    /\ s_pc = "done"
    /\ s_fs = [output |-> "absent", source |-> "absent", static |-> "absent",
               templates |-> "absent", output_removable |-> TRUE,
               docs_writable |-> TRUE, source_writable |-> TRUE]
    /\ s_first = s_fs
    /\ s_start = s_fs

\* run(), line 616, in the first and in the second run of the scaffolder.
ScaffoldCleanOutputDirectory ==
    /\ s_pc \in {"clean_1", "clean_2"}
    /\ s_fs' = clean_output_directory(is_readthedocs, s_fs)
    /\ s_pc' = IF s_pc = "clean_1" THEN "structure_1" ELSE "structure_2"
    /\ UNCHANGED <<s_first, s_start>>
    /\ UNCHANGED scaffoldFrame

\* run(), line 619, in the first and in the second run of the scaffolder.
ScaffoldCreateSphinxStructure ==
    /\ s_pc \in {"structure_1", "structure_2"}
    /\ s_fs' = create_sphinx_structure(s_fs)
    /\ s_pc' = IF s_pc = "structure_1" THEN "clean_2" ELSE "done"
    /\ s_first' = IF s_pc = "structure_1" THEN s_fs' ELSE s_first
    /\ UNCHANGED s_start
    /\ UNCHANGED scaffoldFrame

VersionInit ==
    /\ env_VERSION \in EnvValues
    /\ env_READTHEDOCS_VERSION \in EnvValues
    /\ git_result \in GitResults
    /\ v_pc = "start"
    /\ project_version = None
    /\ git_queried = FALSE

GetProjectVersion ==
    /\ v_pc = "start"
    /\ project_version' = get_project_version(is_readthedocs, env_VERSION,
                                              env_READTHEDOCS_VERSION, git_result)
    /\ git_queried' = GitIsQueried(is_readthedocs, env_VERSION,
                                   env_READTHEDOCS_VERSION)
    /\ v_pc' = "done"
    /\ UNCHANGED <<is_readthedocs, env_VERSION, env_READTHEDOCS_VERSION,
                   git_result>>
    /\ UNCHANGED versionFrame

\* The resolver at rest, for the specifications of the other components.
VersionIdle ==
    /\ env_VERSION = None
    /\ env_READTHEDOCS_VERSION = None
    /\ git_result = [kind |-> "raised", returncode |-> 0, stdout |-> <<>>]
    /\ v_pc = "done"
    /\ project_version = DefaultVersion
    /\ git_queried = FALSE

CleanIdle ==
    /\ doc_output = EmptyText
    /\ c_pc = "done"
    /\ lines = <<>>
    /\ c_i = 1
    /\ cleaned_lines = <<>>
    /\ in_code_block = FALSE
    /\ code_block_content = <<>>
    /\ constants_removed = FALSE
    /\ types_removed = FALSE
    /\ clean_result = EmptyText

ReadmeIdle ==
    /\ readme_exists = FALSE
    /\ readme = EmptyText
    /\ readme_sections = <<>>
    /\ r_pc = "structured"
    /\ pages = [f \in PageNames |-> NoFile]

RunIdle ==
    /\ p_pc = "done"
    /\ abort_cause = "none"
    /\ banner = FALSE
    /\ go_available = FALSE
    /\ out_dir = "absent"
    /\ dirs = {}
    /\ misc_files = [f \in {"requirements.txt", "index.rst"} |-> NoFile]
    /\ module_state = [m \in ModuleSet |-> "absent"]
    /\ module_files = [m \in ModuleSet |-> NoFile]
    /\ examples_state = "absent"
    /\ example_docs = [e \in {ExampleDisplayName} |-> NoFile]
    /\ cwd = "original"
    /\ log = {}
    /\ mod_i = 1
    /\ go_doc_calls = [m \in ModuleSet |-> NotCalled]

InitVersion ==
    /\ is_readthedocs \in BOOLEAN /\ VersionInit
    /\ CleanIdle /\ ReadmeIdle /\ RunIdle /\ ScaffoldIdle

NextVersion == GetProjectVersion

InitClean ==
    /\ is_readthedocs = FALSE /\ VersionIdle
    /\ CleanInit /\ ReadmeIdle /\ RunIdle /\ ScaffoldIdle

InitReadme ==
    /\ is_readthedocs = FALSE /\ VersionIdle
    /\ CleanIdle /\ ReadmeInit /\ RunIdle /\ ScaffoldIdle

NextReadme ==
    ExtractReadmeContent \/ CreateMarkdownFiles \/ CreateProjectStructureDocumentation

SpecReadme == InitReadme /\ [][NextReadme]_vars

InitRun ==
    /\ is_readthedocs \in BOOLEAN /\ VersionIdle
    /\ CleanIdle /\ RunInit /\ ScaffoldIdle

NextRun ==
    \/ CheckGoAvailability
    \/ CleanOutputDirectory
    \/ CreateSphinxStructure
    \/ CreateRequirementsTxt
    \/ RunExtractReadmeContent
    \/ RunCreateMarkdownFiles
    \/ CreateModulesDirectory
    \/ CreateModuleDocumentation
    \/ ModulesDone
    \/ CreateExamplesDocumentation
    \/ RunCreateProjectStructureDocumentation
    \/ CreateIndexRst
    \/ InstallDependencies

SpecRun == InitRun /\ [][NextRun]_vars

InitScaffold ==
    /\ is_readthedocs \in BOOLEAN /\ VersionIdle
    /\ CleanIdle /\ ReadmeIdle /\ RunIdle /\ ScaffoldInit

NextScaffold == ScaffoldCleanOutputDirectory \/ ScaffoldCreateSphinxStructure

SpecScaffold == InitScaffold /\ [][NextScaffold]_vars

NextClean == CleanEmpty \/ CleanBegin \/ CleanLine \/ CleanFinish

SpecClean == InitClean /\ [][NextClean]_vars

SpecVersion == InitVersion /\ [][NextVersion]_vars

(***************************************************************************)
(* The claims about the version resolver, under SpecVersion.               *)
(***************************************************************************)
\* The value of the version override: VERSION, else READTHEDOCS_VERSION.
EnvOverride ==
    IF Truthy(env_VERSION) THEN env_VERSION ELSE env_READTHEDOCS_VERSION

EnvAbsent == env_VERSION = None /\ env_READTHEDOCS_VERSION = None

EnvSentinel == EnvOverride \in {Latest, Stable}

\* The tag query succeeded and printed something.
GitTagFound ==
    /\ git_result.kind = "returned"
    /\ git_result.returncode = 0
    /\ Strip(git_result.stdout) # <<>>

WithoutPrefix(s) == IF StartsWith(s, <<"v">>) THEN Tail(s) ELSE s

\* C5: in every mode, when the version override is absent or a sentinel
\* ("latest"/"stable"), the tag query is run and its non-empty result is the
\* version; the default "0.3.45" is returned only when the query fails or
\* prints nothing.
C5_FallbackChain ==
    (v_pc = "done" /\ (EnvAbsent \/ EnvSentinel)) =>
        /\ git_queried
        /\ GitTagFound =>
               project_version = WithoutPrefix(Strip(git_result.stdout))
        /\ project_version = DefaultVersion => ~GitTagFound

\* C6: in every mode, a VERSION that is a version string beginning with 'v' is
\* returned with the 'v' removed.
C6_EnvPrefixStripped ==
    (/\ v_pc = "done"
     /\ env_VERSION # None
     /\ StartsWith(env_VERSION, <<"v">>)
     /\ Len(env_VERSION) > 1
     /\ Strip(env_VERSION) = env_VERSION)
    => project_version = Tail(env_VERSION)

(***************************************************************************)
(* The claims about the go-doc output cleaner, under SpecClean.            *)
(***************************************************************************)
\* p occurs in t as a run of adjacent lines.
HasSubSeq(t, p) ==
    \E j \in 1..(Len(t) - Len(p) + 1) : SubSeq(t, j, j + Len(p) - 1) = p

EndsWith(t, p) ==
    Len(t) >= Len(p) /\ SubSeq(t, Len(t) - Len(p) + 1, Len(t)) = p

\* The number of lines of t that are the token, white space aside.
CountLines(t, tok) == Cardinality({i \in DOMAIN t : Strip(t[i]) = tok})

\* The for loop is about to scan a line that is no declaration, with a block open.
ScansNonDeclInBlock ==
    /\ c_pc = "loop"
    /\ c_i <= Len(lines)
    /\ c_i' = c_i + 1
    /\ in_code_block
    /\ ~IsDeclLine(Strip(lines[c_i]))

\* The lines the loop drops whatever the state of the block.
DroppedLine(line) ==
    \/ cleaned_lines = <<>> /\ Strip(line) = <<>>
    \/ ~constants_removed /\ Strip(line) = ConstantsToken
    \/ ~types_removed /\ Strip(line) = TypesToken

\* C2 as stated: a non-declaration line scanned while a block is open closes
\* the block and is not placed inside it.
C2_NonDeclClosesBlock ==
    [][ScansNonDeclInBlock =>
           /\ ~in_code_block'
           /\ code_block_content' # Append(code_block_content, Strip(lines[c_i]))]_vars

\* C2 as amended: a non-declaration line scanned while a block is open leaves
\* the block open and emits nothing outside it; the line, stripped, is appended
\* to the block, unless it is one of the lines the loop drops.
C2_NonDeclStaysInBlock ==
    [][ScansNonDeclInBlock =>
           /\ in_code_block'
           /\ cleaned_lines' = cleaned_lines
           /\ code_block_content' =
                  IF DroppedLine(lines[c_i]) THEN code_block_content
                  ELSE Append(code_block_content, Strip(lines[c_i]))]_vars

\* A text line was scanned after a declaration line and is returned between the
\* fences of that declaration's block.
C2_Witness ==
    /\ c_pc = "done"
    /\ \E i \in DOMAIN code_block_content :
           /\ i > 1
           /\ code_block_content[i] # <<>>
           /\ ~IsDeclLine(code_block_content[i])
    /\ EndsWith(clean_result, <<Fence>> \o code_block_content \o <<Fence>>)

\* Two declaration lines follow each other, after the first line (always dropped).
ConsecutiveDecls(i) ==
    /\ i \in 2..(Len(doc_output) - 1)
    /\ IsDeclLine(Strip(doc_output[i]))
    /\ IsDeclLine(Strip(doc_output[i + 1]))

\* C3 as stated: consecutive declaration lines are returned next to each other
\* in one block, with no pair of fences between them.
C3_ConsecutiveDeclsShareBlock ==
    c_pc = "done" =>
        \A i \in DOMAIN doc_output :
            ConsecutiveDecls(i) =>
                HasSubSeq(clean_result,
                          <<Strip(doc_output[i]), Strip(doc_output[i + 1])>>)

\* C3 as amended: each of two consecutive declaration lines is returned in a
\* block of its own, a closing fence and an opening fence between them.
C3_ConsecutiveDeclsSeparateBlocks ==
    c_pc = "done" =>
        \A i \in DOMAIN doc_output :
            ConsecutiveDecls(i) =>
                HasSubSeq(clean_result,
                          <<Strip(doc_output[i]), Fence, Fence,
                            Strip(doc_output[i + 1])>>)

C3_Witness ==
    c_pc = "done" /\ \E i \in DOMAIN doc_output : ConsecutiveDecls(i)

DividerTokens == {ConstantsToken, TypesToken}

\* C4 as stated: of two or more CONSTANTS (TYPES) lines anywhere in the input,
\* the first line included, exactly the first is removed.
C4_FirstOccurrenceOnly ==
    c_pc = "done" =>
        \A tok \in DividerTokens :
            CountLines(doc_output, tok) >= 2 =>
                CountLines(clean_result, tok) = CountLines(doc_output, tok) - 1

\* C4 as amended: of two or more CONSTANTS (TYPES) lines after the first input
\* line, which is dropped whatever it holds, exactly the first is removed.
C4_FirstOccurrenceAfterFirstLine ==
    c_pc = "done" =>
        \A tok \in DividerTokens :
            CountLines(Tail(doc_output), tok) >= 2 =>
                CountLines(clean_result, tok) =
                    CountLines(Tail(doc_output), tok) - 1

\* Two CONSTANTS lines after the first line; the second one is returned, once
\* inside an open block.
C4_Witness ==
    /\ c_pc = "done"
    /\ CountLines(Tail(doc_output), ConstantsToken) >= 2
    /\ \E i \in DOMAIN code_block_content : code_block_content[i] = ConstantsToken
    /\ CountLines(clean_result, ConstantsToken) >= 1

FenceCount(t) == Cardinality({i \in DOMAIN t : t[i] = Fence})

\* C9: no block is left open at the end of the input: the fences of the result
\* pair up, and the block open when the input ends is returned between fences.
C9_NoBlockLeftOpen ==
    c_pc = "done" =>
        /\ FenceCount(clean_result) % 2 = 0
        /\ in_code_block =>
               EndsWith(clean_result, <<Fence>> \o code_block_content \o <<Fence>>)

\* The last line of the input is a declaration line.
C9_Witness ==
    /\ c_pc = "done"
    /\ Len(doc_output) >= 2
    /\ IsDeclLine(Strip(doc_output[Len(doc_output)]))
    /\ in_code_block

(***************************************************************************)
(* The claims about the sectionizer and the page writer, under SpecReadme. *)
(***************************************************************************)
NoLevel2Heading == \A i \in DOMAIN readme : ~StartsWith(readme[i], H2Marker)

\* The line occurs in the text, white space around it aside.
HoldsLine(t, line) == \E j \in DOMAIN t : Strip(t[j]) = Strip(line)

\* C7: a README with no level-2 heading gives one section, "introduction",
\* which holds every non-blank line of the README.
C7_AllInIntroduction ==
    (r_pc = "extracted" /\ readme_exists /\ NoLevel2Heading) =>
        /\ Len(readme_sections) = 1
        /\ readme_sections[1].key = Introduction
        /\ \A i \in DOMAIN readme :
               Strip(readme[i]) # <<>> => HoldsLine(readme_sections[1].val, readme[i])

TitleLine(title) == <<"t","i","t","l","e",":"," ">> \o title

\* The file holds a page whose front matter gives the title.
IsPageTitled(f, title) == pages[f] # NoFile /\ pages[f][2] = TitleLine(title)

\* C8 as stated: every section with content is written to a file whose front
\* matter holds the titleized section name.
C8_EverySectionWritten ==
    r_pc = "written" =>
        \A i \in DOMAIN readme_sections :
            readme_sections[i].val # EmptyText =>
                \E f \in DOMAIN pages :
                    IsPageTitled(f, SectionTitle(readme_sections[i].key))

\* The sections with content that the mapping sends to file f, by their place.
WritersOf(f) ==
    {i \in DOMAIN readme_sections :
        /\ readme_sections[i].val # EmptyText
        /\ \E k \in DOMAIN section_files :
               /\ section_files[k].key = readme_sections[i].key
               /\ section_files[k].val = f}

LastOf(S) == CHOOSE i \in S : \A j \in S : j <= i

\* C8 as amended: a file is written exactly when the mapping sends a section
\* with content to it; it then holds the last such section of the README, with
\* the titleized name of that section in its front matter and as its heading.
\* A section the mapping does not name (such as "usage") is written nowhere.
C8_MappedSectionsWritten ==
    r_pc = "written" =>
        \A f \in DOMAIN pages :
            IF WritersOf(f) = {} THEN pages[f] = NoFile
            ELSE LET sec == readme_sections[LastOf(WritersOf(f))]
                 IN  /\ IsPageTitled(f, SectionTitle(sec.key))
                     /\ pages[f][5] = H1Marker \o SectionTitle(sec.key)
                     /\ \A j \in DOMAIN sec.val :
                            pages[f][6 + j] = DemoteHeading(sec.val[j])

\* The sections "installation" and "usage" both hold content: the first is
\* written under the title "Installation", the second is written nowhere.
C8_Witness ==
    /\ r_pc = "written"
    /\ pages["installation.md"]
           = << <<"-","-","-">>,
                <<"t","i","t","l","e",":"," ","I","n","s","t","a","l","l","a","t","i","o","n">>,
                <<"-","-","-">>,
                <<>>,
                <<"#"," ","I","n","s","t","a","l","l","a","t","i","o","n">>,
                <<>>,
                <<"t">>,
                <<>> >>
    /\ DictHas(readme_sections, <<"u","s","a","g","e">>)
    /\ DictGet(readme_sections, <<"u","s","a","g","e">>) = << <<"t">> >>
    /\ \A f \in DOMAIN pages : f # "installation.md" => pages[f] = NoFile

(***************************************************************************)
(* The pipeline                                                            *)
(***************************************************************************)
\* C1: whatever fails in a step of run(), the run goes on to the later steps
\* and ends by printing the completion banner: no failure of a step ends the
\* run before it.
C1_NoFailureEndsRun == p_pc # "aborted" /\ abort_cause = "none"

\* The steps after the module loop have been entered or the run is over without
\* an exception of the module loop.
PastModuleLoop ==
    \/ p_pc \in {"examples", "project_structure", "index", "install", "done"}
    \/ /\ p_pc = "aborted"
       /\ abort_cause \in {"mkdir_error", "iterdir_error", "write_error",
                           "write_structure", "index_iterdir_error",
                           "index_write_error", "pip_not_started"}

\* create_module_documentation has returned for the module.
Processed(module_name) ==
    CASE module_state[module_name] = "absent" ->
             <<"module_not_found", module_name>> \in log
      [] module_state[module_name] = "nogo" ->
             <<"no_go_files", module_name>> \in log
      [] OTHER ->
             /\ go_doc_calls[module_name].outcome \in GoDocOutcomes
             /\ module_files[module_name] =
                    ModuleContent(module_name, go_doc_calls[module_name].ret)

FailedGoDoc(module_name) == go_doc_calls[module_name].outcome \in GoDocFailures

GoDocWarnings == {"no_package_doc", "timeout_doc", "error_doc"}

\* C10: when the documentation command fails for a module (it cannot be
\* started, it times out, it ends with a status that is not 0 or it prints
\* nothing), get_go_doc_for_package raises nothing and returns the empty string,
\* a warning about the module is printed, and the loop goes on: unless the
\* write of a module page raises, every module of the list is processed.
C10_GoDocFailureIsAbsorbed ==
    \A module_name \in ModuleSet :
        FailedGoDoc(module_name) =>
            /\ ~go_doc_calls[module_name].raised
            /\ go_doc_calls[module_name].ret = EmptyText
            /\ \E kind \in GoDocWarnings : <<kind, module_name>> \in log
            /\ abort_cause # "go_doc"
            /\ abort_cause # "write_module" =>
                   /\ p_pc \in {"module_loop", "aborted"} \/ PastModuleLoop
                   /\ PastModuleLoop => \A m \in ModuleSet : Processed(m)

\* The command failed for the first module, by a timeout, and the module after
\* it was documented all the same.
C10_Witness ==
    /\ PastModuleLoop
    /\ go_doc_calls[go_modules[1]].outcome = "timeout"
    /\ module_files[go_modules[1]] = ModuleContent(go_modules[1], EmptyText)
    /\ go_doc_calls[go_modules[2]].outcome = "ok"
    /\ module_files[go_modules[2]] # NoFile
    /\ module_files[go_modules[2]] # ModuleContent(go_modules[2], EmptyText)

\* The loop is about to call create_module_documentation for a module that has
\* no directory under project_root.
AtMissingModule ==
    /\ p_pc = "module_loop"
    /\ mod_i <= Len(go_modules)
    /\ module_state[go_modules[mod_i]] = "absent"

\* C11: for a module of the list whose directory does not exist under the
\* project root, create_module_documentation prints a warning about it, writes
\* no file for it, does not call the documentation command and leaves the file
\* system (and the working directory) as they were; the loop goes on.
C11_MissingModuleIsNoOp ==
    [][AtMissingModule =>
          /\ <<"module_not_found", go_modules[mod_i]>> \in log'
          /\ module_files' = module_files
          /\ go_doc_calls' = go_doc_calls
          /\ <<dirs, misc_files, pages, example_docs, out_dir, module_state>>' =
                 <<dirs, misc_files, pages, example_docs, out_dir, module_state>>
          /\ cwd' = cwd
          /\ p_pc' = "module_loop" /\ mod_i' = mod_i + 1]_vars

\* The first module is missing, the loop is past it, and the second module,
\* which is there, got its page.
C11_Witness ==
    /\ module_state[go_modules[1]] = "absent"
    /\ <<"module_not_found", go_modules[1]>> \in log
    /\ module_files[go_modules[1]] = NoFile
    /\ go_doc_calls[go_modules[1]] = NotCalled
    /\ module_state[go_modules[2]] = "go"
    /\ module_files[go_modules[2]] # NoFile

(***************************************************************************)
(* The scaffolder                                                          *)
(***************************************************************************)
\* C12: the scaffolder is idempotent: from any state of the file system,
\* clean_output_directory followed by create_sphinx_structure run twice in
\* succession leaves docs/output (and _static and _templates) as one run of
\* them left it.
C12_ScaffolderIdempotent == s_pc = "done" => s_fs = s_first

\* Both rounds are over, and the first one had work to do: it emptied an output
\* directory that had entries and made the three directories of the structure.
C12_Witness ==
    /\ s_pc = "done"
    /\ ~is_readthedocs
    /\ s_start.output = "full" /\ s_start.source = "dir"
    /\ s_start.static = "absent" /\ s_start.templates = "full"
    /\ s_first.output = "empty" /\ s_first.static = "empty"
    /\ s_first.templates = "full"
    /\ s_fs = s_first

(***************************************************************************)
(* The working directory                                                   *)
(***************************************************************************)
\* C13: get_go_doc_for_package leaves the working directory of the process as
\* it found it on every exit path, so that after any sequence of calls of the
\* module loop the working directory is still the original one.
C13_WorkingDirectoryRestored == cwd = "original"

(***************************************************************************)
(* The version returned                                                    *)
(***************************************************************************)
\* C14: the version get_project_version returns is never empty and never made
\* of whitespace only, whatever the environment variables hold and whatever
\* the tag query prints.
C14_VersionNeverBlank == v_pc = "done" => Strip(project_version) # <<>>

(***************************************************************************)
(* Sections that share a file                                              *)
(***************************************************************************)
\* The content as create_markdown_files writes it (lines 243-253).
Demoted(content) == [j \in DOMAIN content |-> DemoteHeading(content[j])]

\* C15: when several sections go to one file (regions and global-services to
\* regions.md; the project-structure section and the static page to
\* project-structure.md) nothing is lost: after the run the file holds the
\* content of every section with content that was written to it, in whatever
\* order the README has them.
C15_NoSectionLost ==
    r_pc = "structured" =>
        \A i \in DOMAIN readme_sections :
            IsWritten(readme_sections[i].key, readme_sections[i].val) =>
                LET f == DictGet(section_files, readme_sections[i].key)
                IN  /\ pages[f] # NoFile
                    /\ HasSubSeq(pages[f], Demoted(readme_sections[i].val))

====
